---- MODULE Spec2Model ----
(***************************************************************************)
(* Alpha-beta pruning practice tool: the tree model, the generator, the   *)
(* reversible action log (ActionListQueue), the search-to-actions         *)
(* compiler (alphaBeta), reset / show-solution / check-answer, and the    *)
(* App handlers that drive them.                                          *)
(*                                                                         *)
(* A node is identified by its position in the complete tree: the root is *)
(* 0 and child slot k of node n is n * bFac + k + 1.  The edge of a node  *)
(* to its parent (node.edgeToParent) is identified by the node.           *)
(***************************************************************************)
EXTENDS Integers, Sequences, FiniteSets, TLC

(***************************************************************************)
(* Bounds of the model.                                                    *)
(***************************************************************************)
MaxDepth == 4
MaxBFac == 3
MaxLeaves == 9
MaxLeafVal == 1
MaxSearchVal == 2
MaxRegenVal == 0
MaxText == 1
MaxQueue == 3
MaxTimers == 2

(***************************************************************************)
(* Program constants.                                                      *)
(***************************************************************************)
InitDepth == 3
InitBFac == 2
MinDepth == 3
MinBFac == 2
MinVal == -20
MaxVal == 20

(***************************************************************************)
(* JavaScript values.  Every field of a node, an edge or an action holds  *)
(* one of: a number, +/-Infinity, null, undefined, true, false.           *)
(***************************************************************************)
Num(n) == [t |-> "num", v |-> n]
NegInf == [t |-> "inf", v |-> -1]
PosInf == [t |-> "inf", v |-> 1]
Null == [t |-> "null", v |-> 0]
Undef == [t |-> "undef", v |-> 0]
True == [t |-> "bool", v |-> 1]
False == [t |-> "bool", v |-> 0]
Bool(p) == IF p THEN True ELSE False
\* a reference to the node at position n
Ref(n) == [t |-> "ref", v |-> n]

\* ToNumber(x) is NaN
IsNaN(x) == x.t = "undef"

\* x < y on the numbers ToNumber gives (null -> 0, false -> 0, true -> 1)
JsLT(x, y) ==
    /\ ~IsNaN(x)
    /\ ~IsNaN(y)
    /\ IF x.t = "inf"
       THEN x.v = -1 /\ ~(y.t = "inf" /\ y.v = -1)
       ELSE IF y.t = "inf" THEN y.v = 1 ELSE x.v < y.v

JsGT(x, y) == JsLT(y, x)

JsLE(x, y) == ~IsNaN(x) /\ ~IsNaN(y) /\ ~JsLT(y, x)

Truthy(x) ==
    CASE x.t = "num" -> x.v # 0
      [] x.t = "inf" -> TRUE
      [] x.t = "ref" -> TRUE
      [] x.t = "bool" -> x.v = 1
      [] OTHER -> FALSE

\* x || y
JsOr(x, y) == IF Truthy(x) THEN x ELSE y

\* faulty variant of JsNullish: no default
JsNullishKept(x, y) == x

\* x ?? y
JsNullish(x, y) == IF x.t \in {"null", "undef"} THEN y ELSE x

\* !x
JsNot(x) == Bool(~Truthy(x))

(***************************************************************************)
(* Tree geometry.                                                          *)
(***************************************************************************)
RECURSIVE Pow(_, _)
Pow(b, e) == IF e = 0 THEN 1 ELSE b * Pow(b, e - 1)

RECURSIVE NumNodes(_, _)
NumNodes(depth, bFac) ==
    IF depth = 0 THEN 0 ELSE Pow(bFac, depth - 1) + NumNodes(depth - 1, bFac)

Child(n, k, bFac) == n * bFac + k + 1
Parent(n, bFac) == (n - 1) \div bFac

RECURSIVE DepthOf(_, _)
DepthOf(n, bFac) == IF n = 0 THEN 1 ELSE 1 + DepthOf(Parent(n, bFac), bFac)

NodeIds(depth, bFac) == 0 .. (NumNodes(depth, bFac) - 1)
LeafIds(depth, bFac) == {n \in NodeIds(depth, bFac) : DepthOf(n, bFac) = depth}

oppositeNodeType(t) ==
    IF t = "maxNode" THEN "minNode"
    ELSE IF t = "minNode" THEN "maxNode" ELSE t

RECURSIVE TypeAt(_, _)
\* the nodeType generateSubTree is called with at depth d
TypeAt(treeType, d) ==
    IF d = 1 THEN treeType ELSE oppositeNodeType(TypeAt(treeType, d - 1))

createTree(treeType, depth, branchingFactor) ==
    [rootNode |-> Null, treeType |-> treeType, depth |-> depth,
     branchingFactor |-> branchingFactor, mutable |-> TRUE]

\* Math.round(Math.random() * (maxVal - minVal)) - maxVal, q being the
\* rounded product
LeafValue(q, maxVal) == Num(q - maxVal)

\* the node generateSubTree creates at position n; draw[n] is the rounded
\* random product of a leaf
NewNode(n, treeType, maxDepth, bFac, draw, maxVal) ==
    LET d == DepthOf(n, bFac)
        leaf == d = maxDepth
    IN [nodeType |-> IF leaf THEN "leafNode" ELSE TypeAt(treeType, d),
        depth |-> d,
        childNum |-> bFac,
        value |-> IF leaf THEN LeafValue(draw[n], maxVal) ELSE Null,
        alpha |-> Undef, beta |-> Undef, entered |-> Undef, pruned |-> Undef,
        __value |-> Undef, __alpha |-> Undef, __beta |-> Undef,
        __pruned |-> Undef]

NewEdge == [pruned |-> False, entered |-> Undef, __pruned |-> Undef]

\* the object graph generateABTreeRootNode returns: its nodes and edges
generateABTreeRootNode(treeType, maxDepth, bFac, draw, maxVal) ==
    [nodes |-> [n \in NodeIds(maxDepth, bFac) |->
                    NewNode(n, treeType, maxDepth, bFac, draw, maxVal)],
     edges |-> [n \in NodeIds(maxDepth, bFac) \ {0} |-> NewEdge]]

IsLeaf(h, n) == h.nodes[n].nodeType = "leafNode"
Interior(h) == {n \in DOMAIN h.nodes : ~IsLeaf(h, n)}

(***************************************************************************)
(* Action: a reversible write of one field of a node or an edge.           *)
(***************************************************************************)
NodeObj(n) == [kind |-> "node", id |-> n]
EdgeObj(n) == [kind |-> "edge", id |-> n]
NoObj == [kind |-> "none", id |-> 0]
\* node.edgeToParent: undefined for the root
EdgeToParent(n) == IF n = 0 THEN NoObj ELSE EdgeObj(n)

Action(object, key, oldVal, newVal) ==
    [object |-> object, key |-> key, oldVal |-> oldVal, newVal |-> newVal]

SetField(h, object, key, val) ==
    IF object.kind = "none" THEN h
    ELSE IF object.kind = "node"
         THEN [h EXCEPT !.nodes[object.id][key] = val]
         ELSE [h EXCEPT !.edges[object.id][key] = val]

\* faulty variant of apply: the old value is written
applyOldVal(act, h) == SetField(h, act.object, act.key, act.oldVal)

apply(act, h) == SetField(h, act.object, act.key, act.newVal)

reverse(act, h) == SetField(h, act.object, act.key, act.oldVal)

RECURSIVE ApplyList(_, _, _)
\* for (const action of actionList) action.apply(), from index i
ApplyList(actionList, i, h) ==
    IF i > Len(actionList) THEN h
    ELSE ApplyList(actionList, i + 1, apply(actionList[i], h))

RECURSIVE ReverseList(_, _, _)
\* for (const action of actionList) action.reverse(), from index i
ReverseList(actionList, i, h) ==
    IF i > Len(actionList) THEN h
    ELSE ReverseList(actionList, i + 1, reverse(actionList[i], h))

(***************************************************************************)
(* ActionListQueue.                                                        *)
(***************************************************************************)
NewActionListQueue ==
    [inAction |-> FALSE, lastAction |-> -1, actionListQueue |-> <<>>,
     length |-> 0]

\* faulty variant of pushActionList: the inAction guard is missing
pushActionListUnguarded(q, actionList) ==
    [q |-> [q EXCEPT !.actionListQueue = Append(@, actionList),
                     !.length = @ + 1],
     ret |-> TRUE]

pushActionList(q, actionList) ==
    IF q.inAction THEN [q |-> q, ret |-> FALSE]
    ELSE [q |-> [q EXCEPT !.actionListQueue = Append(@, actionList),
                          !.length = @ + 1],
          ret |-> TRUE]

extendActionList(q, actionLists) ==
    IF q.inAction THEN [q |-> q, ret |-> FALSE]
    ELSE [q |-> [q EXCEPT !.actionListQueue = @ \o actionLists,
                          !.length = @ + Len(actionLists)],
          ret |-> TRUE]

\* index i holds a step of the log
HasStep(q, i) == i \in 0 .. (Len(q.actionListQueue) - 1)

\* this.actionListQueue[i]: undefined outside 0 .. length - 1
StepAt(q, i) == IF HasStep(q, i) THEN q.actionListQueue[i + 1] ELSE Undef

\* faulty variant of AtEnd: the bound is off by one
AtEndOffByOne(q) == q.lastAction = Len(q.actionListQueue)

\* the guard of stepForward
AtEnd(q) == q.lastAction = Len(q.actionListQueue) - 1

\* faulty variant of AtBeginning: step 0 is never reversed
AtBeginningAtZero(q) == q.lastAction <= 0

\* the guard of stepBackward
AtBeginning(q) == q.lastAction = -1

\* The results below carry threw: the call ended in a TypeError (for ... of
\* over undefined) and returned nothing; ret is then FALSE and means
\* nothing.

\* stepForward(): the cursor is advanced before the step is read, so it
\* stays advanced when the read step is undefined and the loop throws
stepForward(q, h) ==
    IF ~q.inAction \/ AtEnd(q)
    THEN [q |-> q, h |-> h, ret |-> FALSE, reads |-> {}, threw |-> FALSE]
    ELSE LET la == q.lastAction + 1
         IN IF ~HasStep(q, la)
            THEN [q |-> [q EXCEPT !.lastAction = la], h |-> h,
                  ret |-> FALSE, reads |-> {la}, threw |-> TRUE]
            ELSE [q |-> [q EXCEPT !.lastAction = la],
                  h |-> ApplyList(StepAt(q, la), 1, h),
                  ret |-> TRUE,
                  reads |-> {la}, threw |-> FALSE]

\* stepBackward(): the cursor is moved after the loop, so it is left where
\* it was when the read step is undefined and the loop throws
stepBackward(q, h) ==
    IF ~q.inAction \/ AtBeginning(q)
    THEN [q |-> q, h |-> h, ret |-> FALSE, reads |-> {}, threw |-> FALSE]
    ELSE IF ~HasStep(q, q.lastAction)
    THEN [q |-> q, h |-> h, ret |-> FALSE, reads |-> {q.lastAction},
          threw |-> TRUE]
    ELSE [q |-> [q EXCEPT !.lastAction = @ - 1],
          h |-> ReverseList(StepAt(q, q.lastAction), 1, h),
          ret |-> TRUE,
          reads |-> {q.lastAction}, threw |-> FALSE]

RECURSIVE WhileStepForward(_, _, _)
\* while (this.stepForward()) {}
WhileStepForward(q, h, reads) ==
    LET r == stepForward(q, h)
    IN IF r.ret THEN WhileStepForward(r.q, r.h, reads \cup r.reads)
       ELSE [q |-> r.q, h |-> r.h, reads |-> reads \cup r.reads,
             threw |-> r.threw]

RECURSIVE WhileStepBackward(_, _, _)
\* while (this.stepBackward()) {}
WhileStepBackward(q, h, reads) ==
    LET r == stepBackward(q, h)
    IN IF r.ret THEN WhileStepBackward(r.q, r.h, reads \cup r.reads)
       ELSE [q |-> r.q, h |-> r.h, reads |-> reads \cup r.reads,
             threw |-> r.threw]

\* faulty variant of goToEnd: one stepForward instead of the loop
goToEndOnce(q, h) ==
    [q |-> stepForward(q, h).q, h |-> stepForward(q, h).h,
     reads |-> stepForward(q, h).reads, threw |-> stepForward(q, h).threw]

goToEnd(q, h) ==
    IF ~q.inAction THEN [q |-> q, h |-> h, reads |-> {}, threw |-> FALSE]
    ELSE WhileStepForward(q, h, {})

goToBeginning(q, h) ==
    IF ~q.inAction THEN [q |-> q, h |-> h, reads |-> {}, threw |-> FALSE]
    ELSE WhileStepBackward(q, h, {})

(***************************************************************************)
(* The search-to-actions compiler.  h is the object graph (nodes, edges); *)
(* the compiler reads visible fields, writes shadow fields and returns    *)
(* the graph with the actions.                                             *)
(***************************************************************************)
RECURSIVE pruneInner(_, _, _), pruneChildren(_, _, _, _)
\* acc = [actions, h]
pruneInner(acc, n, bFac) ==
    LET acc1 == IF n # 0
                THEN [actions |-> Append(acc.actions,
                                         Action(EdgeObj(n), "pruned", False, True)),
                      h |-> [acc.h EXCEPT !.edges[n].__pruned = True]]
                ELSE acc
    IN pruneChildren(acc1, n, 0, bFac)

\* for (k < bFac) pruneInner(n.children[k]); a leaf's slots are empty
pruneChildren(acc, n, k, bFac) ==
    IF k >= bFac \/ IsLeaf(acc.h, n) THEN acc
    ELSE pruneChildren(pruneInner(acc, Child(n, k, bFac), bFac), n, k + 1, bFac)

\* faulty variant of generatePruneActionList: only the edge to the cut
\* child is marked
generatePruneActionListShallow(h, node, bFac) ==
    [actions |-> <<Action(EdgeObj(node), "pruned", False, True)>>,
     h |-> [h EXCEPT !.edges[node].__pruned = True]]

generatePruneActionList(h, node, bFac) ==
    pruneInner([actions |-> <<>>, h |-> h], node, bFac)

\* faulty variant of Cutoff: the search goes on when the bounds meet
CutoffStrict(a, b) == JsLT(b, a)

\* if (b <= a) pruneRest = true
Cutoff(a, b) == JsLE(b, a)

\* faulty variant of MaxImproves: a max node keeps the smaller value
MaxImprovesLess(returnVal, cur) == JsLT(returnVal, cur)

\* res.returnVal > curVal, res.returnVal > a at a max node
MaxImproves(returnVal, cur) == JsGT(returnVal, cur)

\* faulty variant of MinImproves: a min node keeps the larger value
MinImprovesGreater(returnVal, cur) == JsGT(returnVal, cur)

\* res.returnVal < curVal, res.returnVal < b at a min node
MinImproves(returnVal, cur) == JsLT(returnVal, cur)

\* where the parent's value/bound actions of a searched child go, and the
\* child's entry step
GroupSteps(res, setValActions, lastChildExitActions) ==
    LET inner == Len(res.childActionsList) # 0
    IN [exitActions |-> IF inner THEN res.exitActions \o setValActions
                        ELSE res.exitActions,
        enterActions |-> (IF inner THEN res.enterActions
                          ELSE res.enterActions \o setValActions)
                         \o lastChildExitActions]

\* the pruneRest branch of the child loop, pr being the result of
\* generatePruneActionList(child, bFac)
Pruned(st, node, pr) ==
    [st EXCEPT
        !.lastChildExitActions =
            (@ \o pr.actions) \o <<Action(NodeObj(node), "pruned", False, True)>>,
        !.h = [pr.h EXCEPT !.nodes[node].__pruned = True]]

\* faulty variant of PruneChild: the child that caused the cutoff is pruned
\* in place of the one after it
PruneChildBefore(st, node, child, bFac) ==
    Pruned(st, node, generatePruneActionList(st.h, child - 1, bFac))

PruneChild(st, node, child, bFac) ==
    Pruned(st, node, generatePruneActionList(st.h, child, bFac))

\* if (res.returnVal > curVal) { curVal = ...; setValActions.push(value
\* action); node.__value = curVal }.  u holds h, a, b, curVal, setValActions
MaxValue(u, node, returnVal) ==
    IF MaxImproves(returnVal, u.curVal)
    THEN [u EXCEPT !.curVal = returnVal,
                   !.setValActions =
                       Append(@, Action(NodeObj(node), "value",
                                        u.h.nodes[node].__value, returnVal)),
                   !.h.nodes[node].__value = returnVal]
    ELSE u

\* if (res.returnVal > a) { a = ...; setValActions.push(alpha action);
\* node.__alpha = a }
MaxBound(u, node, returnVal) ==
    IF MaxImproves(returnVal, u.a)
    THEN [u EXCEPT !.a = returnVal,
                   !.setValActions =
                       Append(@, Action(NodeObj(node), "alpha",
                                        u.h.nodes[node].__alpha, returnVal)),
                   !.h.nodes[node].__alpha = returnVal]
    ELSE u

\* if (res.returnVal < curVal) { ... } of a min node
MinValue(u, node, returnVal) ==
    IF MinImproves(returnVal, u.curVal)
    THEN [u EXCEPT !.curVal = returnVal,
                   !.setValActions =
                       Append(@, Action(NodeObj(node), "value",
                                        u.h.nodes[node].__value, returnVal)),
                   !.h.nodes[node].__value = returnVal]
    ELSE u

\* if (res.returnVal < b) { b = ...; setValActions.push(beta action);
\* node.__beta = b }
MinBound(u, node, returnVal) ==
    IF MinImproves(returnVal, u.b)
    THEN [u EXCEPT !.b = returnVal,
                   !.setValActions =
                       Append(@, Action(NodeObj(node), "beta",
                                        u.h.nodes[node].__beta, returnVal)),
                   !.h.nodes[node].__beta = returnVal]
    ELSE u

\* the loop's variables before the updates for a searched child
Searched(st, res) ==
    [h |-> res.h, a |-> st.a, b |-> st.b, curVal |-> st.curVal,
     setValActions |-> <<>>]

\* the loop's variables after a searched child: the steps are grouped and
\* the cutoff is tested
AfterChild(st, res, u) ==
    [h |-> u.h, a |-> u.a, b |-> u.b, curVal |-> u.curVal,
     pruneRest |-> Cutoff(u.a, u.b),
     lastChildExitActions |->
         GroupSteps(res, u.setValActions, st.lastChildExitActions).exitActions,
     childActionsList |->
         Append(st.childActionsList,
                GroupSteps(res, u.setValActions,
                           st.lastChildExitActions).enterActions)
         \o res.childActionsList]

\* one iteration of the loop of a max node, res being the child's result
MaxChild(st, node, res) ==
    AfterChild(st, res,
               MaxBound(MaxValue(Searched(st, res), node, res.returnVal),
                        node, res.returnVal))

\* one iteration of the loop of a min node, res being the child's result
MinChild(st, node, res) ==
    AfterChild(st, res,
               MinBound(MinValue(Searched(st, res), node, res.returnVal),
                        node, res.returnVal))

\* the loop's variables before the first child
LoopStart(h, node, a, b, isMaxNode) ==
    [h |-> [h EXCEPT !.nodes[node].__alpha = a, !.nodes[node].__beta = b],
     a |-> a, b |-> b,
     curVal |-> IF isMaxNode THEN NegInf ELSE PosInf,
     pruneRest |-> FALSE,
     lastChildExitActions |-> <<>>,
     childActionsList |-> <<>>]

\* what abActions returns for a leaf
LeafResult(h, node) ==
    [returnVal |-> h.nodes[node].value,
     enterActions |->
         <<Action(EdgeToParent(node), "entered", False, True),
           Action(NodeObj(node), "entered", False, True)>>,
     childActionsList |-> <<>>,
     exitActions |-> <<Action(EdgeToParent(node), "entered", True, False)>>,
     h |-> h]

\* what abActions returns for an interior node, st being the loop's
\* variables after the last child and h the graph on entry
InteriorResult(h, node, a, b, st) ==
    [returnVal |-> st.curVal,
     enterActions |->
         <<Action(EdgeToParent(node), "entered", False, True),
           Action(NodeObj(node), "entered", False, True),
           Action(NodeObj(node), "alpha", h.nodes[node].alpha, a),
           Action(NodeObj(node), "beta", h.nodes[node].beta, b)>>,
     childActionsList |->
         Append(st.childActionsList, st.lastChildExitActions),
     exitActions |->
         <<Action(EdgeToParent(node), "entered", True, False),
           Action(NodeObj(node), "entered", True, False)>>,
     h |-> st.h]

RECURSIVE abActions(_, _, _, _, _, _), abLoop(_, _, _, _, _)

\* for (; k < bFac; k++) of abActions; st holds the loop's variables
abLoop(st, bFac, node, k, isMaxNode) ==
    IF k >= bFac THEN st
    ELSE abLoop(
             IF st.pruneRest
             THEN PruneChild(st, node, Child(node, k, bFac), bFac)
             ELSE IF isMaxNode
             THEN MaxChild(st, node,
                           abActions(st.h, bFac, Child(node, k, bFac),
                                     st.a, st.b, ~isMaxNode))
             ELSE MinChild(st, node,
                           abActions(st.h, bFac, Child(node, k, bFac),
                                     st.a, st.b, ~isMaxNode)),
             bFac, node, k + 1, isMaxNode)

abActions(h, bFac, node, a, b, isMaxNode) ==
    IF IsLeaf(h, node) THEN LeafResult(h, node)
    ELSE InteriorResult(h, node, a, b,
                        abLoop(LoopStart(h, node, a, b, isMaxNode),
                               bFac, node, 0, isMaxNode))

\* faulty variant of PushResult: the root's exit step is pushed before the
\* steps of its children
PushResultExitEarly(res) ==
    [q |-> extendActionList(
               pushActionList(
                   pushActionList(NewActionListQueue, res.enterActions).q,
                   res.exitActions).q,
               res.childActionsList).q,
     h |-> res.h]

\* actionLQ.pushActionList(res.enterActions); extendActionList(
\* res.childActionsList); pushActionList(res.exitActions)
PushResult(res) ==
    [q |-> pushActionList(
               extendActionList(
                   pushActionList(NewActionListQueue, res.enterActions).q,
                   res.childActionsList).q,
               res.exitActions).q,
     h |-> res.h]

\* alphaBeta(tree): the log, and the object graph with its shadow fields
alphaBeta(tree, h) ==
    IF tree.rootNode = Null THEN [q |-> NewActionListQueue, h |-> h]
    ELSE PushResult(abActions(h, tree.branchingFactor, 0, NegInf, PosInf,
                              tree.treeType = "maxNode"))

(***************************************************************************)
(* Reset, show solution, check answer.                                     *)
(***************************************************************************)
RECURSIVE resetSubTree(_, _), resetChildren(_, _, _)
resetSubTree(h, node) ==
    LET h1 == IF node # 0
              THEN [h EXCEPT !.edges[node].entered = False,
                             !.edges[node].pruned = False]
              ELSE h
        h2 == [h1 EXCEPT !.nodes[node].entered = False]
    IN IF IsLeaf(h2, node) THEN h2
       ELSE resetChildren([h2 EXCEPT !.nodes[node].value = Null,
                                     !.nodes[node].alpha = Null,
                                     !.nodes[node].beta = Null],
                          node, 0)

resetChildren(h, node, k) ==
    IF k >= h.nodes[node].childNum THEN h
    ELSE resetChildren(resetSubTree(h, Child(node, k, h.nodes[node].childNum)),
                       node, k + 1)

\* faulty variant of resetTree: the children are not visited
resetTreeRootOnly(tree, h) ==
    IF tree.rootNode = Null THEN h
    ELSE [h EXCEPT !.nodes[0].entered = False, !.nodes[0].value = Null,
                   !.nodes[0].alpha = Null, !.nodes[0].beta = Null]

resetTree(tree, h) == IF tree.rootNode = Null THEN h ELSE resetSubTree(h, 0)

RECURSIVE setSolutionForSubTree(_, _), setSolutionChildren(_, _, _)
setSolutionForSubTree(h, node) ==
    LET h1 == IF node # 0
              THEN [h EXCEPT !.edges[node].pruned =
                                 JsOr(h.edges[node].__pruned, False)]
              ELSE h
    IN IF IsLeaf(h1, node) THEN h1
       ELSE setSolutionChildren(
                [h1 EXCEPT
                    !.nodes[node].value = JsNullish(h1.nodes[node].__value, Null),
                    !.nodes[node].alpha = JsNullish(h1.nodes[node].__alpha, Null),
                    !.nodes[node].beta = JsNullish(h1.nodes[node].__beta, Null),
                    !.nodes[node].pruned = JsOr(h1.nodes[node].__pruned, False)],
                node, 0)

setSolutionChildren(h, node, k) ==
    IF k >= h.nodes[node].childNum THEN h
    ELSE setSolutionChildren(
             setSolutionForSubTree(h, Child(node, k, h.nodes[node].childNum)),
             node, k + 1)

\* faulty variant of setSolution: the root's shadow value is moved, not
\* copied
setSolutionMoving(tree, h) ==
    IF tree.rootNode = Null THEN h
    ELSE [setSolutionForSubTree(h, 0) EXCEPT !.nodes[0].__value = Undef]

setSolution(tree, h) ==
    IF tree.rootNode = Null THEN h ELSE setSolutionForSubTree(h, 0)

RECURSIVE checkSubTree(_, _), checkChildren(_, _, _, _)
checkSubTree(h, node) ==
    IF IsLeaf(h, node) THEN TRUE
    ELSE IF h.nodes[node].value # h.nodes[node].__value THEN FALSE
    ELSE IF /\ node # 0
            /\ Truthy(h.edges[node].__pruned)
            /\ h.edges[node].__pruned # h.edges[node].pruned
         THEN FALSE
    ELSE checkChildren(h, node, 0, TRUE)

\* res = res && checkSubTree(node.children[k])
checkChildren(h, node, k, res) ==
    IF k >= h.nodes[node].childNum THEN res
    ELSE checkChildren(h, node, k + 1,
             res /\ checkSubTree(h, Child(node, k, h.nodes[node].childNum)))

checkAnswer(tree, h) ==
    IF tree.rootNode = Null THEN TRUE ELSE checkSubTree(h, 0)

(***************************************************************************)
(* State.                                                                  *)
(*   tree, nodes, edges : treeRef.current and its object graph             *)
(*   actionRef          : actionRef.current (Null or an ActionListQueue)   *)
(*   correct            : the App's `correct` state                        *)
(*   playingRef, timers : playingRef.current (Null, or a reference to a    *)
(*                        pending timeout) and the pending timeouts of play*)
(*   canvas             : the TreeCanvas state: selectedNodeId, valStr and   *)
(*                        charIndex                                        *)
(*   call, ret, reads   : the handler run last, the log method it called,  *)
(*                        what that returned and the indices of            *)
(*                        actionListQueue it read                          *)
(*   pre, trip          : history: the visible state when playback was     *)
(*                        entered, and how far a forward-then-backward     *)
(*                        traversal has come since                         *)
(***************************************************************************)
VARIABLES tree, nodes, edges, actionRef, correct, playingRef, timers,
          canvas, call, ret, reads, pre, trip

vars == <<tree, nodes, edges, actionRef, correct, playingRef, timers,
          canvas, call, ret, reads, pre, trip>>

H == [nodes |-> nodes, edges |-> edges]

VisibleNode(n) ==
    [value |-> n.value, alpha |-> n.alpha, beta |-> n.beta,
     entered |-> n.entered, pruned |-> n.pruned]
VisibleEdge(e) == [pruned |-> e.pruned, entered |-> e.entered]
\* the fields playback and the learner write
Visible(h) ==
    [nodes |-> [n \in DOMAIN h.nodes |-> VisibleNode(h.nodes[n])],
     edges |-> [n \in DOMAIN h.edges |-> VisibleEdge(h.edges[n])]]

ShadowNode(n) ==
    [value |-> n.__value, alpha |-> n.__alpha, beta |-> n.__beta,
     pruned |-> n.__pruned]
\* the fields only the compiler writes
Shadow(h) ==
    [nodes |-> [n \in DOMAIN h.nodes |-> ShadowNode(h.nodes[n])],
     edges |-> [n \in DOMAIN h.edges |-> h.edges[n].__pruned]]

\* a selectedNodeId that belongs to no node of the current tree (ids are
\* never reused: ++globalNodeId)
Stale == [t |-> "stale", v |-> 0]
\* useState(null), useState(''), useState(0) of the TreeCanvas
NewCanvas == [selectedNodeId |-> Null, valStr |-> <<>>, charIndex |-> 0]

NoSnapshot == [nodes |-> <<>>, edges |-> <<>>]

HasLog == actionRef # Null
InPlayback == HasLog /\ actionRef.inAction

Call(handler, op, n) == [handler |-> handler, op |-> op, n |-> n]

(***************************************************************************)
(* Shapes and leaf draws of the generated trees.                           *)
(***************************************************************************)
Shapes ==
    {s \in (MinDepth .. MaxDepth) \X (MinBFac .. MaxBFac) :
        Pow(s[2], s[1] - 1) <= MaxLeaves}
InitShape == {<<InitDepth, InitBFac>>}
\* rounded random products giving the leaf values 0 .. MaxLeafVal
Draws == {q \in 0 .. (MaxVal - MinVal) : (q - MaxVal) \in 0 .. MaxLeafVal}
\* rounded random products giving the leaf values 0 .. MaxSearchVal
SearchDraws == {q \in 0 .. (MaxVal - MinVal) : (q - MaxVal) \in 0 .. MaxSearchVal}
\* rounded random products giving the leaf values 0 .. MaxRegenVal
RegenDraws == {q \in 0 .. (MaxVal - MinVal) : (q - MaxVal) \in 0 .. MaxRegenVal}
\* rounded random products giving the leaf values 2, 3, 5, 9
ScenarioDraws == {MaxVal + 2, MaxVal + 3, MaxVal + 5, MaxVal + 9}
TreeTypes == {"maxNode", "minNode"}

\* the App once mounted: createTree, then regenerateTree from the effect;
\* aq is actionRef.current
Mounted(treeType, shape, draw, aq) ==
    LET h == generateABTreeRootNode(treeType, shape[1], shape[2], draw, MaxVal)
    IN /\ tree = [createTree(treeType, shape[1], shape[2])
                     EXCEPT !.rootNode = Ref(0)]
       /\ nodes = h.nodes
       /\ edges = h.edges
       /\ actionRef = aq
       /\ correct = Null
       /\ playingRef = Null
       /\ timers = 0
       /\ canvas = NewCanvas
       /\ call = Call("mount", "none", 0)
       /\ ret = Undef
       /\ reads = {}
       /\ pre = NoSnapshot
       /\ trip = "none"

InitOver(shapes, draws, aq) ==
    \E treeType \in TreeTypes, shape \in shapes :
      \E draw \in [LeafIds(shape[1], shape[2]) -> draws] :
        Mounted(treeType, shape, draw, aq)

Init == InitOver(InitShape, Draws, Null)

\* steps a caller may append to a log: writes to the root, to the first
\* child and its edge, to no object, and the empty step
StepPool ==
    {<<Action(NodeObj(0), "value", Null, Num(1))>>,
     <<Action(EdgeObj(1), "pruned", False, True),
       Action(NodeObj(1), "entered", False, True)>>,
     <<Action(NoObj, "entered", False, True)>>,
     <<>>}
StepLists ==
    {<<>>} \cup {<<x>> : x \in StepPool}
           \cup {<<x, y>> : x \in StepPool, y \in StepPool}

(***************************************************************************)
(* App handlers.                                                           *)
(***************************************************************************)
\* ensureAction(): the log, and the object graph after it
ensureAction ==
    IF actionRef = Null THEN alphaBeta(tree, H)
    ELSE [q |-> actionRef, h |-> H]

\* the idle panel, <div style={{display: aq?.inAction ? 'none' : 'block'}}>:
\* its buttons (the shape buttons, Reset, Show Solution, Check Answer) are
\* not rendered while an animation runs, so that no click reaches them, and
\* the last three are disabled as well
IdleControls == ~InPlayback
\* the playback buttons, disabled unless an animation runs
PlaybackControls == InPlayback

\* regenerateTree() on the tree record t, which the caller may have
\* changed: a new object graph, and the log is dropped
Regenerated(t, handler) ==
    /\ \E draw \in [LeafIds(t.depth, t.branchingFactor) -> RegenDraws] :
         LET h == generateABTreeRootNode(t.treeType, t.depth,
                                         t.branchingFactor, draw, MaxVal)
         IN /\ nodes' = h.nodes
            /\ edges' = h.edges
    /\ tree' = [t EXCEPT !.rootNode = Ref(0)]
    /\ actionRef' = Null
    /\ call' = Call(handler, "none", 0)
    /\ ret' = Undef
    /\ reads' = {}
    /\ pre' = NoSnapshot
    /\ trip' = "none"
    /\ canvas' = [canvas EXCEPT !.selectedNodeId =
                                   IF @ = Null THEN Null ELSE Stale]
    /\ UNCHANGED <<correct, playingRef, timers>>

\* the shapes the model generates
InShapes(t) == <<t.depth, t.branchingFactor>> \in Shapes

JsMax(x, y) == IF x >= y THEN x ELSE y

\* the callbacks themselves, as the App defines them
regenerateTree == Regenerated(tree, "regenerateTree")

incrBranchingFactor(incr) ==
    LET t == [tree EXCEPT !.branchingFactor = JsMax(MinBFac, @ + incr)]
    IN InShapes(t) /\ Regenerated(t, "incrBranchingFactor")

incrDepth(incr) ==
    LET t == [tree EXCEPT !.depth = JsMax(MinDepth, @ + incr)]
    IN InShapes(t) /\ Regenerated(t, "incrDepth")

flipMax ==
    Regenerated([tree EXCEPT !.treeType = oppositeNodeType(@)], "flipMax")

\* a click on a shape button.  The buttons are inside the idle panel; the
\* callbacks above test nothing themselves
RegenerateTree == IdleControls /\ regenerateTree
IncrBranchingFactor == IdleControls /\ \E incr \in {-1, 1} : incrBranchingFactor(incr)
IncrDepth == IdleControls /\ \E incr \in {-1, 1} : incrDepth(incr)
FlipMax == IdleControls /\ flipMax

\* what a handler hands back: nothing when the queue threw inside it
Thrown == [t |-> "throw", v |-> 0]
Returned(r, val) == IF r.threw THEN Thrown ELSE val

ToggleABVisual ==
    LET ea == ensureAction
        h1 == resetTree(tree, ea.h)
    IN IF ea.q.inAction
       THEN LET r == goToBeginning(ea.q, h1)
            IN /\ nodes' = r.h.nodes
               /\ edges' = r.h.edges
               /\ tree' = IF r.threw THEN tree
                          ELSE [tree EXCEPT !.mutable = TRUE]
               /\ actionRef' = IF r.threw THEN r.q
                               ELSE [r.q EXCEPT !.inAction = FALSE]
               /\ call' = Call("toggleABVisual", "goToBeginning", 0)
               /\ reads' = r.reads
               /\ pre' = NoSnapshot
               /\ trip' = "none"
               /\ ret' = Returned(r, Undef)
               /\ UNCHANGED <<canvas, correct, playingRef, timers>>
       ELSE /\ nodes' = h1.nodes
            /\ edges' = h1.edges
            /\ tree' = [tree EXCEPT !.mutable = FALSE]
            /\ actionRef' = [ea.q EXCEPT !.inAction = TRUE]
            /\ correct' = Null
            /\ call' = Call("toggleABVisual", "none", 0)
            /\ reads' = {}
            /\ pre' = Visible(h1)
            /\ trip' = "start"
            /\ ret' = Undef
            /\ UNCHANGED <<canvas, playingRef, timers>>

\* App.stepForward(): what it returns and leaves behind
AppStepForward ==
    IF actionRef = Null
    THEN [q |-> Null, h |-> H, ret |-> FALSE, reads |-> {}, threw |-> FALSE]
    ELSE stepForward(actionRef, H)

\* App.stepBackward()
AppStepBackward ==
    IF actionRef = Null
    THEN [q |-> Null, h |-> H, ret |-> FALSE, reads |-> {}, threw |-> FALSE]
    ELSE stepBackward(actionRef, H)

\* The stepping handlers below are taken whenever they are called: the
\* buttons are disabled outside playback, but the timeouts of play call
\* stepForward at any time and the handlers guard themselves.

\* the traversal "forward until false, then backward until false"
TripAfterForward(ok) ==
    IF trip \in {"start", "forward"}
    THEN (IF ok THEN "forward" ELSE "end")
    ELSE "none"
TripAfterBackward(ok) ==
    IF trip \in {"end", "backward"}
    THEN (IF ok THEN "backward" ELSE "done")
    ELSE "none"

StepForward ==
    /\ LET r == AppStepForward
       IN /\ actionRef' = r.q
          /\ nodes' = r.h.nodes
          /\ edges' = r.h.edges
          /\ ret' = Returned(r, Bool(r.ret))
          /\ reads' = r.reads
          /\ trip' = TripAfterForward(r.ret)
    /\ call' = Call("stepForward", "stepForward", 0)
    /\ UNCHANGED <<canvas, tree, correct, playingRef, timers, pre>>

StepBackward ==
    /\ LET r == AppStepBackward
       IN /\ actionRef' = r.q
          /\ nodes' = r.h.nodes
          /\ edges' = r.h.edges
          /\ ret' = Returned(r, Bool(r.ret))
          /\ reads' = r.reads
          /\ trip' = TripAfterBackward(r.ret)
    /\ call' = Call("stepBackward", "stepBackward", 0)
    /\ UNCHANGED <<canvas, tree, correct, playingRef, timers, pre>>

GoToEnd ==
    /\ LET r == IF actionRef = Null
                THEN [q |-> Null, h |-> H, reads |-> {}, threw |-> FALSE]
                ELSE goToEnd(actionRef, H)
       IN /\ actionRef' = r.q
          /\ nodes' = r.h.nodes
          /\ edges' = r.h.edges
          /\ reads' = r.reads
          /\ ret' = Returned(r, Undef)
    /\ trip' = TripAfterForward(FALSE)
    /\ call' = Call("goToEnd", "goToEnd", 0)
    /\ UNCHANGED <<canvas, tree, correct, playingRef, timers, pre>>

GoToBeginning ==
    /\ LET r == IF actionRef = Null
                THEN [q |-> Null, h |-> H, reads |-> {}, threw |-> FALSE]
                ELSE goToBeginning(actionRef, H)
       IN /\ actionRef' = r.q
          /\ nodes' = r.h.nodes
          /\ edges' = r.h.edges
          /\ reads' = r.reads
          /\ ret' = Returned(r, Undef)
    /\ trip' = TripAfterBackward(FALSE)
    /\ call' = Call("goToBeginning", "goToBeginning", 0)
    /\ UNCHANGED <<canvas, tree, correct, playingRef, timers, pre>>

\* playingRef.current after a timeout threw in its callback: the id of a
\* timeout that has run, which clearTimeout ignores
Expired == [t |-> "expired", v |-> 0]

\* step() of play: one stepForward, then a new timeout if it moved; named
\* tells that step runs in the timeout playingRef.current names
PlayStep(handler, pending, named) ==
    LET r == AppStepForward
    IN /\ actionRef' = r.q
       /\ nodes' = r.h.nodes
       /\ edges' = r.h.edges
       /\ ret' = Returned(r, Bool(r.ret))
       /\ reads' = r.reads
       /\ trip' = TripAfterForward(r.ret)
       /\ timers' = IF r.ret THEN pending + 1 ELSE pending
       /\ playingRef' = IF r.threw
                        THEN (IF named THEN Expired ELSE playingRef)
                        ELSE IF r.ret THEN Ref(0) ELSE Null
       /\ call' = Call(handler, "stepForward", 0)
       /\ UNCHANGED <<canvas, tree, correct, pre>>

Play ==
    /\ PlaybackControls
    /\ timers < MaxTimers
    /\ PlayStep("play", timers, FALSE)

\* a pending timeout of play fires
TimerFire ==
    /\ timers > 0
    /\ \E named \in BOOLEAN :
           /\ named => playingRef = Ref(0)
           /\ ~named => (playingRef # Ref(0) \/ timers > 1)
           /\ PlayStep("timer", timers - 1, named)

Pause ==
    /\ PlaybackControls
    /\ timers' = IF playingRef = Ref(0) THEN timers - 1 ELSE timers
    /\ playingRef' = Null
    /\ call' = Call("pause", "none", 0)
    /\ ret' = Undef
    /\ reads' = {}
    /\ UNCHANGED <<canvas, tree, nodes, edges, actionRef, correct, pre, trip>>

OnEdgeToggle ==
    /\ tree.mutable
    /\ \E e \in DOMAIN edges :
         edges' = [edges EXCEPT ![e].pruned = JsNot(edges[e].pruned)]
    /\ call' = Call("onEdgeToggle", "none", 0)
    /\ ret' = Undef
    /\ reads' = {}
    /\ trip' = "none"
    /\ UNCHANGED <<canvas, tree, nodes, actionRef, correct, playingRef, timers, pre>>

OnCheckAnswer ==
    /\ IdleControls
    /\ LET ea == ensureAction
       IN /\ actionRef' = ea.q
          /\ nodes' = ea.h.nodes
          /\ edges' = ea.h.edges
          /\ correct' = Bool(checkAnswer(tree, ea.h))
    /\ call' = Call("onCheckAnswer", "none", 0)
    /\ ret' = Undef
    /\ reads' = {}
    /\ trip' = "none"
    /\ UNCHANGED <<canvas, tree, playingRef, timers, pre>>

OnResetTree ==
    /\ IdleControls
    /\ LET h == resetTree(tree, H)
       IN /\ nodes' = h.nodes
          /\ edges' = h.edges
    /\ call' = Call("onResetTree", "none", 0)
    /\ ret' = Undef
    /\ reads' = {}
    /\ trip' = "none"
    /\ UNCHANGED <<canvas, tree, actionRef, correct, playingRef, timers, pre>>

OnShowSolution ==
    /\ IdleControls
    /\ LET ea == ensureAction
           h == setSolution(tree, ea.h)
       IN /\ actionRef' = ea.q
          /\ nodes' = h.nodes
          /\ edges' = h.edges
    /\ call' = Call("onShowSolution", "none", 0)
    /\ ret' = Undef
    /\ reads' = {}
    /\ trip' = "none"
    /\ UNCHANGED <<canvas, tree, correct, playingRef, timers, pre>>

\* a caller of the log appends one step of StepPool
PushActionList ==
    /\ HasLog
    /\ actionRef.length < MaxQueue
    /\ \E actionList \in StepPool :
         /\ actionRef' = pushActionList(actionRef, actionList).q
         /\ ret' = Bool(pushActionList(actionRef, actionList).ret)
    /\ call' = Call("caller", "pushActionList", 1)
    /\ reads' = {}
    /\ trip' = "none"
    /\ UNCHANGED <<canvas, tree, nodes, edges, correct, playingRef, timers, pre>>

\* a caller of the log appends zero, one or two steps of StepPool
ExtendActionList ==
    /\ HasLog
    /\ \E actionLists \in StepLists :
         /\ actionRef.length + Len(actionLists) <= MaxQueue
         /\ actionRef' = extendActionList(actionRef, actionLists).q
         /\ ret' = Bool(extendActionList(actionRef, actionLists).ret)
         /\ call' = Call("caller", "extendActionList", Len(actionLists))
    /\ reads' = {}
    /\ trip' = "none"
    /\ UNCHANGED <<canvas, tree, nodes, edges, correct, playingRef, timers, pre>>

\* ensureAction() alone: the search is compiled for the tree
EnsureAction ==
    /\ ~HasLog
    /\ actionRef' = ensureAction.q
    /\ nodes' = ensureAction.h.nodes
    /\ edges' = ensureAction.h.edges
    /\ call' = Call("ensureAction", "none", 0)
    /\ ret' = Undef
    /\ reads' = {}
    /\ trip' = "none"
    /\ UNCHANGED <<canvas, tree, correct, playingRef, timers, pre>>

(***************************************************************************)
(* TreeCanvas: editing a node's value as text, and the mouse handlers.     *)
(* A text is a sequence of characters.                                     *)
(***************************************************************************)
NaN == [t |-> "nan", v |-> 0]

DigitChars == <<"0", "1", "2", "3", "4", "5", "6", "7", "8", "9">>
IsDigit(c) == \E d \in 1 .. 10 : DigitChars[d] = c
DigitOf(c) == (CHOOSE d \in 1 .. 10 : DigitChars[d] = c) - 1

RECURSIVE DigitsOf(_)
DigitsOf(n) ==
    IF n < 10 THEN <<DigitChars[n + 1]>>
    ELSE Append(DigitsOf(n \div 10), DigitChars[(n % 10) + 1])

InfinityChars == <<"I", "n", "f", "i", "n", "i", "t", "y">>

\* String(x), character by character
JsString(x) ==
    CASE x.t = "num" ->
             IF x.v < 0 THEN <<"-">> \o DigitsOf(0 - x.v) ELSE DigitsOf(x.v)
      [] x.t = "inf" ->
             IF x.v < 0 THEN <<"-">> \o InfinityChars ELSE InfinityChars
      [] x.t = "bool" ->
             IF x.v = 1 THEN <<"t", "r", "u", "e">>
             ELSE <<"f", "a", "l", "s", "e">>
      [] x.t = "null" -> <<"n", "u", "l", "l">>
      [] x.t = "undef" -> <<"u", "n", "d", "e", "f", "i", "n", "e", "d">>
      [] OTHER -> <<"N", "a", "N">>

RECURSIVE ParseDigits(_, _, _)
ParseDigits(str, i, acc) ==
    IF i > Len(str) \/ ~IsDigit(str[i]) THEN acc
    ELSE ParseDigits(str, i + 1, acc * 10 + DigitOf(str[i]))

\* parseFloat(str) for texts without a digit after a decimal point: the
\* longest prefix that is a number (an optional minus sign, then Infinity
\* or digits), NaN if there is none
parseFloat(str) ==
    LET neg == Len(str) > 0 /\ str[1] = "-"
        start == IF neg THEN 2 ELSE 1
    IN IF start > Len(str) THEN NaN
       ELSE IF /\ start + Len(InfinityChars) - 1 <= Len(str)
               /\ SubSeq(str, start, start + Len(InfinityChars) - 1)
                      = InfinityChars
            THEN (IF neg THEN NegInf ELSE PosInf)
       ELSE IF ~IsDigit(str[start]) THEN NaN
       ELSE Num((IF neg THEN -1 ELSE 1) * ParseDigits(str, start, 0))

\* Number.isNaN(num) ? null : num
Committed(str) == IF parseFloat(str) = NaN THEN Null ELSE parseFloat(str)

\* nodes.find(n => n.id === id)
getNodeById(id) == IF id.t = "ref" THEN id ELSE Undef

\* node.value == null ? '' : String(node.value)
NextStr(value) ==
    IF value.t \in {"null", "undef"} THEN <<>> ELSE JsString(value)

\* the nodes and edges a learner clicks: the root and the first leaf, the
\* first and the last edge
EditNodes == {0, NumNodes(tree.depth - 1, tree.branchingFactor)}
EditEdges == {1, NumNodes(tree.depth, tree.branchingFactor) - 1}
\* the keys a learner presses
Keys ==
    {"1", "-", "Backspace", "ArrowLeft", "ArrowRight", "Enter", "Escape",
     "x", "Shift"}
\* e.key.length === 1 && /[0-9\.\-]/.test(e.key)
InputChars == {DigitChars[d] : d \in 1 .. 10} \cup {".", "-"}

\* what a TreeCanvas handler leaves alone
CanvasFrame(handler, n) ==
    /\ call' = Call(handler, "none", n)
    /\ ret' = Undef
    /\ reads' = {}
    /\ trip' = "none"
    /\ UNCHANGED <<tree, actionRef, correct, playingRef, timers, pre>>

startEditing(n) ==
    /\ nodes' =
           IF /\ canvas.selectedNodeId # Null
              /\ canvas.selectedNodeId # Ref(n)
              /\ getNodeById(canvas.selectedNodeId) # Undef
           THEN [nodes EXCEPT ![canvas.selectedNodeId.v].value =
                                  Committed(canvas.valStr)]
           ELSE nodes
    /\ canvas' = [selectedNodeId |-> Ref(n),
                  valStr |-> NextStr(nodes[n].value),
                  charIndex |-> Len(NextStr(nodes[n].value))]

commitEditing ==
    IF canvas.selectedNodeId = Null THEN UNCHANGED <<nodes, canvas>>
    ELSE /\ nodes' =
                IF getNodeById(canvas.selectedNodeId) # Undef
                THEN [nodes EXCEPT ![canvas.selectedNodeId.v].value =
                                       Committed(canvas.valStr)]
                ELSE nodes
         /\ canvas' = NewCanvas

cancelEditing == canvas' = NewCanvas /\ UNCHANGED nodes

\* onMouseDown of a node
NodeMouseDown ==
    \E n \in EditNodes :
        /\ IF ~tree.mutable \/ canvas.selectedNodeId = Ref(n)
           THEN UNCHANGED <<nodes, canvas>>
           ELSE startEditing(n)
        /\ UNCHANGED edges
        /\ CanvasFrame("nodeMouseDown", n)

\* onMouseDown of an edge
EdgeMouseDown ==
    \E e \in EditEdges :
        /\ edges' = IF ~tree.mutable THEN edges
                    ELSE [edges EXCEPT ![e].pruned = JsNot(edges[e].pruned)]
        /\ UNCHANGED <<nodes, canvas>>
        /\ CanvasFrame("edgeMouseDown", e)

\* onSvgMouseDown on the background
SvgMouseDown ==
    /\ commitEditing
    /\ UNCHANGED edges
    /\ CanvasFrame("svgMouseDown", 0)

JsMin(x, y) == IF x <= y THEN x ELSE y

\* onKeyDown: a digit, minus sign or decimal point is inserted at
\* charIndex; any other key that is not an editing key does nothing
onKeyDown(key) ==
        /\ IF canvas.selectedNodeId = Null THEN UNCHANGED <<nodes, canvas>>
           ELSE CASE key = "Enter" -> commitEditing
                  [] key = "Escape" -> cancelEditing
                  [] key = "Backspace" ->
                       /\ canvas' =
                              [canvas EXCEPT
                                  !.valStr =
                                      SubSeq(@, 1, JsMax(0, canvas.charIndex - 1))
                                      \o SubSeq(@, canvas.charIndex + 1, Len(@)),
                                  !.charIndex = JsMax(0, @ - 1)]
                       /\ UNCHANGED nodes
                  [] key = "ArrowLeft" ->
                       /\ canvas' = [canvas EXCEPT !.charIndex = JsMax(0, @ - 1)]
                       /\ UNCHANGED nodes
                  [] key = "ArrowRight" ->
                       /\ canvas' = [canvas EXCEPT
                                        !.charIndex =
                                            JsMin(Len(canvas.valStr), @ + 1)]
                       /\ UNCHANGED nodes
                  [] key \in InputChars ->
                       /\ Len(canvas.valStr) < MaxText
                       /\ canvas' =
                              [canvas EXCEPT
                                  !.valStr =
                                      (SubSeq(@, 1, canvas.charIndex) \o <<key>>)
                                      \o SubSeq(@, canvas.charIndex + 1, Len(@)),
                                  !.charIndex = @ + 1]
                       /\ UNCHANGED nodes
                  [] OTHER -> UNCHANGED <<nodes, canvas>>
        /\ UNCHANGED edges
        /\ CanvasFrame("keyDown", 0)

KeyDown == \E key \in Keys : onKeyDown(key)

\* the learner types a 1 or presses Enter
TypeValue == \E key \in {"1", "Enter"} : onKeyDown(key)

\* the texts onNodeInputChange is called with
InputTexts == {<<>>, <<"-">>, <<".">>, <<"-", ".">>, <<"1">>, <<"-", "-">>}

\* App.onNodeInputChange(node, value): the empty text and a lone sign or
\* point clear the value, a number sets it, any other text leaves it
onNodeInputChange(n, value) ==
    /\ nodes' =
           IF value \in {<<>>, <<"-">>, <<".">>, <<"-", ".">>}
           THEN [nodes EXCEPT ![n].value = Null]
           ELSE IF parseFloat(value) # NaN
           THEN [nodes EXCEPT ![n].value = parseFloat(value)]
           ELSE nodes
    /\ UNCHANGED <<edges, canvas>>
    /\ CanvasFrame("onNodeInputChange", n)

\* the callback invoked on its own, for the first leaf: TreeCanvas
\* receives it as a prop and never calls it
OnNodeInputChange ==
    \E value \in InputTexts :
        onNodeInputChange(NumNodes(tree.depth - 1, tree.branchingFactor),
                          value)

(***************************************************************************)
(* Spec: the playback state machine of the App on the tree it is mounted   *)
(* with.                                                                   *)
(***************************************************************************)
Next ==
    \/ ToggleABVisual
    \/ StepForward
    \/ StepBackward
    \/ GoToEnd
    \/ GoToBeginning
    \/ OnShowSolution
    \/ OnResetTree

Spec == Init /\ [][Next]_vars

(***************************************************************************)
(* SpecQueue: an ActionListQueue a caller fills itself, then plays.        *)
(***************************************************************************)
\* the tree has all leaves 0; the log is new ActionListQueue()
InitQueue == InitOver(InitShape, {MaxVal}, NewActionListQueue)

NextQueue ==
    \/ PushActionList
    \/ ExtendActionList
    \/ ToggleABVisual
    \/ StepForward
    \/ StepBackward
    \/ GoToEnd
    \/ GoToBeginning

SpecQueue == InitQueue /\ [][NextQueue]_vars

(***************************************************************************)
(* SpecSearch: alphaBeta on every generated tree of the bounded shapes.    *)
(* SpecScenario: alphaBeta on the trees of the initial shape with leaf     *)
(* values among 2, 3, 5, 9.                                                *)
(***************************************************************************)
InitSearch == InitOver(Shapes, SearchDraws, Null)
NextSearch == EnsureAction
SpecSearch == InitSearch /\ [][NextSearch]_vars

InitScenario == InitOver(InitShape, ScenarioDraws, Null)
SpecScenario == InitScenario /\ [][NextSearch]_vars

(***************************************************************************)
(* SpecLog: alphaBeta on every generated tree of the bounded shapes with   *)
(* leaf values 0 .. MaxLeafVal.                                            *)
(***************************************************************************)
InitLog == InitOver(Shapes, Draws, Null)
SpecLog == InitLog /\ [][NextSearch]_vars

(***************************************************************************)
(* SpecPlay: the animation with auto-play, its timeouts and pause.         *)
(***************************************************************************)
NextPlay ==
    \/ ToggleABVisual
    \/ Play
    \/ TimerFire
    \/ Pause
    \/ StepBackward

SpecPlay == Init /\ [][NextPlay]_vars

(***************************************************************************)
(* SpecStale: the learner edits values on the mounted tree and asks for    *)
(* the check or the solution.                                              *)
(***************************************************************************)
NextStale ==
    \/ OnCheckAnswer
    \/ OnShowSolution
    \/ NodeMouseDown
    \/ SvgMouseDown
    \/ KeyDown

SpecStale == Init /\ [][NextStale]_vars

(***************************************************************************)
(* SpecVerify: the learner's tools on a mutable tree.                      *)
(***************************************************************************)
NextVerify ==
    \/ OnShowSolution
    \/ OnResetTree
    \/ OnCheckAnswer
    \/ OnEdgeToggle

SpecVerify == Init /\ [][NextVerify]_vars

(***************************************************************************)
(* SpecApp: the App as mounted (a max-rooted tree of the initial shape),    *)
(* driven by clicks on the buttons it renders: the animation, the tools    *)
(* and the shape buttons.                                                  *)
(* SpecCallbacks: the shape callbacks of the App called in any state,      *)
(* around an animation and a value the learner has entered.                *)
(***************************************************************************)
InitApp ==
    \E draw \in [LeafIds(InitDepth, InitBFac) -> RegenDraws] :
        Mounted("maxNode", <<InitDepth, InitBFac>>, draw, Null)

NextApp ==
    \/ ToggleABVisual
    \/ StepForward
    \/ StepBackward
    \/ GoToEnd
    \/ GoToBeginning
    \/ OnShowSolution
    \/ OnResetTree
    \/ OnCheckAnswer
    \/ RegenerateTree
    \/ IncrBranchingFactor
    \/ IncrDepth
    \/ FlipMax

SpecApp == InitApp /\ [][NextApp]_vars

NextCallbacks ==
    \/ OnNodeInputChange
    \/ ToggleABVisual
    \/ StepForward
    \/ GoToBeginning
    \/ regenerateTree
    \/ \E incr \in {-1, 1} : incrBranchingFactor(incr)
    \/ \E incr \in {-1, 1} : incrDepth(incr)
    \/ flipMax

SpecCallbacks == InitApp /\ [][NextCallbacks]_vars

(***************************************************************************)
(* SpecEnd: the animation run to its end, rewound and stopped, and the     *)
(* solution shown, on every generated tree of the bounded shapes with leaf *)
(* values 0 .. MaxLeafVal.                                                 *)
(***************************************************************************)
NextEnd ==
    \/ ToggleABVisual
    \/ GoToEnd
    \/ GoToBeginning
    \/ OnShowSolution

SpecEnd == InitLog /\ [][NextEnd]_vars

(***************************************************************************)
(* SpecEdit: the learner edits values and edges around an animation.       *)
(***************************************************************************)
NextEdit ==
    \/ ToggleABVisual
    \/ NodeMouseDown
    \/ EdgeMouseDown
    \/ SvgMouseDown
    \/ KeyDown

SpecEdit == InitApp /\ [][NextEdit]_vars

(***************************************************************************)
(* SpecFrame: every operation that follows a compile.                      *)
(***************************************************************************)
NextFrame ==
    \/ ToggleABVisual
    \/ StepForward
    \/ StepBackward
    \/ GoToEnd
    \/ GoToBeginning
    \/ OnResetTree
    \/ OnShowSolution
    \/ OnCheckAnswer
    \/ NodeMouseDown
    \/ EdgeMouseDown
    \/ SvgMouseDown
    \/ TypeValue

SpecFrame == InitApp /\ [][NextFrame]_vars

(***************************************************************************)
(* Properties.                                                             *)
(***************************************************************************)
BFac == tree.branchingFactor
Root == nodes[0]
PrunedEdges == {e \in DOMAIN edges : edges[e].__pruned = True}
\* the leaf values left to right
LeafRow == [i \in 1 .. Cardinality(LeafIds(tree.depth, BFac)) |->
               nodes[NumNodes(tree.depth - 1, BFac) + i - 1].value.v]

VisibleNodeKeys == {"value", "alpha", "beta", "entered", "pruned"}
VisibleEdgeKeys == {"pruned", "entered"}

\* the places <<step, action>> of the actions of steps 0 .. k of the log q
\* that write field key of object
WritesTo(q, k, object, key) ==
    {w \in UNION {{<<i, j>> : j \in 1 .. Len(q.actionListQueue[i])} :
                      i \in 1 .. (k + 1)} :
        /\ q.actionListQueue[w[1]][w[2]].object = object
        /\ q.actionListQueue[w[1]][w[2]].key = key}

\* the last place of W in the order the steps are applied
LastWrite(W) ==
    CHOOSE w \in W :
        \A x \in W : x[1] < w[1] \/ (x[1] = w[1] /\ x[2] <= w[2])

\* field key of object after steps 0 .. k of q are applied in order to a
\* state in which the field holds val: the last value written, if any
Replayed(q, k, object, key, val) ==
    IF WritesTo(q, k, object, key) = {} THEN val
    ELSE LET w == LastWrite(WritesTo(q, k, object, key))
         IN q.actionListQueue[w[1]][w[2]].newVal

\* C1: after entering playback, stepForward until it returns false and then
\* stepBackward until it returns false leaves every visible field of every
\* node and edge equal to its value just before the first stepForward.
C1_RoundTrip == trip = "done" => Visible(H) = pre

\* C2: during playback the visible state equals steps 0 .. lastAction
\* applied in order to the visible state playback was entered with.
C2_ReplayInvariant ==
    InPlayback =>
        /\ \A n \in DOMAIN nodes, key \in VisibleNodeKeys :
               nodes[n][key] = Replayed(actionRef, actionRef.lastAction,
                                        NodeObj(n), key, pre.nodes[n][key])
        /\ \A e \in DOMAIN edges, key \in VisibleEdgeKeys :
               edges[e][key] = Replayed(actionRef, actionRef.lastAction,
                                        EdgeObj(e), key, pre.edges[e][key])

SetMax(S) == CHOOSE x \in S : \A y \in S : y <= x
SetMin(S) == CHOOSE x \in S : \A y \in S : x <= y

RECURSIVE Minimax(_, _)
\* the full, unpruned minimax value of node n from the leaf values and the
\* node kinds
Minimax(h, n) ==
    IF IsLeaf(h, n) THEN h.nodes[n].value.v
    ELSE LET vals == {Minimax(h, Child(n, k, h.nodes[n].childNum)) :
                         k \in 0 .. (h.nodes[n].childNum - 1)}
         IN IF h.nodes[n].nodeType = "maxNode" THEN SetMax(vals)
            ELSE SetMin(vals)

\* C3: after alphaBeta the root's shadow value is the unpruned minimax
\* value of the tree.
C3_MinimaxCorrect == HasLog => Root.__value = Num(Minimax(H, 0))

\* a compiled tree deeper than the initial one in which a cutoff occurred
C3_Witness ==
    /\ HasLog
    /\ tree.depth > InitDepth
    /\ PrunedEdges # {}
    /\ Root.__value = Num(Minimax(H, 0))

RECURSIVE Below(_, _, _)
\* n lies in the subtree of e
Below(n, e, bFac) ==
    IF n = e THEN TRUE
    ELSE IF n <= e THEN FALSE
    ELSE Below(Parent(n, bFac), e, bFac)

LeavesBelow(e) == {n \in LeafIds(tree.depth, BFac) : Below(n, e, BFac)}

\* the object graph with the leaves of alt given the values of alt
WithLeaves(h, alt) ==
    [h EXCEPT !.nodes = [n \in DOMAIN h.nodes |->
                            IF n \in DOMAIN alt
                            THEN [h.nodes[n] EXCEPT !.value = Num(alt[n])]
                            ELSE h.nodes[n]]]

\* other leaf values: those of the generated trees, one below and one above
AltVals == (0 - 1) .. (MaxSearchVal + 1)

\* C4: for every shadow-pruned edge, giving the leaves below it any other
\* values and compiling again gives the same root shadow value.
C4_PruningSound ==
    HasLog =>
        \A e \in PrunedEdges :
            \A alt \in [LeavesBelow(e) -> AltVals] :
                alphaBeta(tree, WithLeaves(H, alt)).h.nodes[0].__value
                    = Root.__value

\* a compiled tree with a pruned edge to an interior node
C4_Witness ==
    /\ HasLog
    /\ \E e \in PrunedEdges : ~IsLeaf(H, e)

\* what the verification is specified to test
Verified(h) ==
    /\ \A n \in Interior(h) : h.nodes[n].value = h.nodes[n].__value
    /\ \A e \in DOMAIN h.edges :
           h.edges[e].__pruned = True => h.edges[e].pruned = True

\* C5: checkAnswer returns true exactly when every interior node's visible
\* value equals its shadow value and every shadow-pruned edge, edges to
\* leaves included, is visibly pruned.
C5_VerifyExact ==
    call.handler = "onCheckAnswer" => (correct = True <=> Verified(H))

IsScenario == HasLog /\ LeafRow = <<3, 5, 2, 9>>

\* C6: the max-rooted tree of depth 3 and branching factor 2 with leaves
\* 3, 5, 2, 9 gets root shadow value 5 and no shadow-pruned edge.
C6_Scenario ==
    (IsScenario /\ tree.treeType = "maxNode") =>
        (Root.__value = Num(5) /\ PrunedEdges = {})

\* C6 as amended: with leaves 3, 5, 2, 9 the min-rooted tree gets root
\* shadow value 5 and no shadow-pruned edge; the max-rooted tree gets root
\* shadow value 3 and exactly the edge to the leaf valued 9 is
\* shadow-pruned.
C6_ScenarioAmended ==
    IsScenario =>
        IF tree.treeType = "minNode"
        THEN Root.__value = Num(5) /\ PrunedEdges = {}
        ELSE Root.__value = Num(3) /\ PrunedEdges = {6}

C6_Witness == IsScenario /\ tree.treeType = "maxNode" /\ Root.__value = Num(3)

\* C7: while inAction, pushActionList and extendActionList return false and
\* leave the log as it is; otherwise they return true and length grows by
\* the number of steps appended.
C7_PushRejected ==
    [][call'.op \in {"pushActionList", "extendActionList"} =>
          IF actionRef.inAction
          THEN ret' = False /\ actionRef' = actionRef
          ELSE /\ ret' = True
               /\ actionRef'.length = actionRef.length + call'.n
               /\ Len(actionRef'.actionListQueue)
                      = Len(actionRef.actionListQueue) + call'.n
               /\ actionRef'.lastAction = actionRef.lastAction]_vars

\* a push was rejected during playback of a log with steps
C7_Witness ==
    /\ InPlayback
    /\ call.op \in {"pushActionList", "extendActionList"}
    /\ call.n > 0
    /\ ret = False
    /\ actionRef.length > 0

\* stepForward has nothing to do
ForwardIdle ==
    \/ ~HasLog
    \/ ~actionRef.inAction
    \/ actionRef.lastAction = actionRef.length - 1
\* stepBackward has nothing to do
BackwardIdle ==
    \/ ~HasLog
    \/ ~actionRef.inAction
    \/ actionRef.lastAction = -1

\* C8: stepForward (stepBackward) returns false and changes neither the
\* cursor nor a visible field when there is no log, playback is not active
\* or the cursor is at length - 1 (at -1); otherwise it returns true and
\* moves the cursor by exactly one.
C8_StepGuards ==
    [][/\ call'.op = "stepForward" =>
             IF ForwardIdle
             THEN ret' = False /\ actionRef' = actionRef
                  /\ Visible(H)' = Visible(H)
             ELSE ret' = True
                  /\ actionRef'.lastAction = actionRef.lastAction + 1
       /\ call'.op = "stepBackward" =>
             IF BackwardIdle
             THEN ret' = False /\ actionRef' = actionRef
                  /\ Visible(H)' = Visible(H)
             ELSE ret' = True
                  /\ actionRef'.lastAction = actionRef.lastAction - 1]_vars

\* stepForward was refused at the end of a compiled log
C8_Witness ==
    /\ InPlayback
    /\ call.op = "stepForward"
    /\ ret = False
    /\ actionRef.length > 1
    /\ actionRef.lastAction = actionRef.length - 1

\* C9: the cursor of a log stays within -1 .. length - 1 and no step is
\* read at an index outside 0 .. length - 1.
C9_CursorBounds ==
    HasLog =>
        /\ actionRef.lastAction >= -1
        /\ actionRef.lastAction <= actionRef.length - 1
        /\ reads \subseteq 0 .. (actionRef.length - 1)

\* a step was asked of an empty log in playback
C9_Witness ==
    /\ InPlayback
    /\ actionRef.length = 0
    /\ call.op \in {"stepForward", "stepBackward", "goToEnd", "goToBeginning"}

\* C10: during playback goToEnd ends at cursor length - 1 and goToBeginning
\* at cursor -1, and either one called again right away changes neither
\* the cursor nor a visible field.
C10_BoundaryTraversal ==
    [][/\ (InPlayback /\ call'.handler = "goToEnd") =>
              actionRef'.lastAction = actionRef'.length - 1
       /\ (InPlayback /\ call'.handler = "goToBeginning") =>
              actionRef'.lastAction = -1
       /\ (InPlayback /\ call.handler \in {"goToEnd", "goToBeginning"}
             /\ call'.handler = call.handler) =>
              actionRef' = actionRef /\ Visible(H)' = Visible(H)]_vars

\* goToEnd was called from the middle of a compiled log
C10_Witness ==
    /\ InPlayback
    /\ call.handler = "goToEnd"
    /\ reads # {}
    /\ 0 \notin reads
    /\ actionRef.lastAction = actionRef.length - 1

ShapeHandlers ==
    {"regenerateTree", "incrBranchingFactor", "incrDepth", "flipMax"}

\* C11: whenever playback is entered the cursor is -1 and the tree becomes
\* immutable; whenever it is left there is a log with cursor -1 and
\* inAction false and the tree is mutable; and always a log that is not in
\* playback has cursor -1.
C11_PlaybackTransitions ==
    /\ [](HasLog /\ ~actionRef.inAction => actionRef.lastAction = -1)
    /\ [][/\ (~InPlayback /\ InPlayback') =>
                 (actionRef'.lastAction = -1 /\ ~tree'.mutable)
          /\ (InPlayback /\ ~InPlayback') =>
                 /\ HasLog'
                 /\ actionRef'.lastAction = -1
                 /\ ~actionRef'.inAction
                 /\ tree'.mutable]_vars

\* C12: after regenerateTree, flipMax, incrDepth or incrBranchingFactor,
\* called in any state, there is no log in playback and the tree is mutable.
C12_RegenerationIdle ==
    call.handler \in ShapeHandlers => (~InPlayback /\ tree.mutable)

\* C13: tree.mutable is false exactly when a log exists with inAction true.
C13_MutableIffIdle == ~tree.mutable <=> InPlayback

EditHandlers == {"nodeMouseDown", "edgeMouseDown", "svgMouseDown", "keyDown"}

\* the visible values of the nodes and the visible pruned flags of the edges
Edited ==
    [value |-> [n \in DOMAIN nodes |-> nodes[n].value],
     pruned |-> [e \in DOMAIN edges |-> edges[e].pruned]]

\* C14: while playback is engaged no handler of the canvas (a click on a
\* node, on an edge or on the background, a key) changes a node's visible
\* value or an edge's visible pruned flag.
C14_EditGating ==
    [][(InPlayback /\ call'.handler \in EditHandlers) => Edited' = Edited]_vars

\* C15: once the search is compiled, no operation that is not a compile
\* (stepping, goToEnd, goToBeginning, resetTree, setSolution, checkAnswer,
\* a value edit, an edge toggle) changes a shadow field of a node or edge.
C15_ShadowFrame == [][HasLog => Shadow(H)' = Shadow(H)]_vars

\* an edit was committed on a compiled tree: the root's visible value
\* differs from its shadow value
C15_Witness ==
    /\ HasLog
    /\ call.handler \in {"svgMouseDown", "keyDown"}
    /\ nodes[0].value = Num(1)
    /\ nodes[0].__value = Num(0)

LeafValues == [n \in DOMAIN nodes \ Interior(H) |-> nodes[n].value]

\* the visible state resetTree is specified to leave
IsReset ==
    /\ \A n \in Interior(H) :
           nodes[n].value = Null /\ nodes[n].alpha = Null /\ nodes[n].beta = Null
    /\ \A e \in DOMAIN edges :
           edges[e].entered = False /\ edges[e].pruned = False

\* C16: after resetTree every interior node's visible value, alpha and beta
\* are null and every edge's visible entered and pruned are false, and the
\* leaves' values and the shadow fields are as before the call.
C16_ResetEffect ==
    [][call'.handler = "onResetTree" =>
          /\ IsReset'
          /\ LeafValues' = LeafValues
          /\ Shadow(H)' = Shadow(H)]_vars

\* the tree was reset after its solution was shown
C16_Witness ==
    /\ call.handler = "onResetTree"
    /\ IsReset
    /\ \E n \in Interior(H) : nodes[n].__value # Undef /\ nodes[n].pruned = True

\* C17: after resetTree no node and no edge is shown pruned or entered and
\* no interior node shows a value or a bound, as in a generated tree.
C17_ResetUnevaluated ==
    call.handler = "onResetTree" =>
        /\ \A n \in DOMAIN nodes :
               ~Truthy(nodes[n].pruned) /\ ~Truthy(nodes[n].entered)
        /\ \A e \in DOMAIN edges :
               ~Truthy(edges[e].pruned) /\ ~Truthy(edges[e].entered)
        /\ \A n \in Interior(H) :
               /\ nodes[n].value \in {Null, Undef}
               /\ nodes[n].alpha \in {Null, Undef}
               /\ nodes[n].beta \in {Null, Undef}

\* C18: after setSolution every interior node's visible value, alpha, beta
\* and pruned equal its shadow value, alpha, beta and pruned.
C18_SolutionEqualsShadow ==
    call.handler = "onShowSolution" =>
        \A n \in Interior(H) :
            /\ nodes[n].value = nodes[n].__value
            /\ nodes[n].alpha = nodes[n].__alpha
            /\ nodes[n].beta = nodes[n].__beta
            /\ nodes[n].pruned = nodes[n].__pruned

\* C18 as amended: after setSolution every interior node's visible value,
\* alpha and beta equal the shadow ones where the compiler set them and are
\* null where it did not, its visible pruned is true if the shadow one is
\* and false otherwise, every shadow-pruned edge is visibly pruned, and
\* the leaves' values are as before.
C18_SolutionEffect ==
    /\ [](call.handler = "onShowSolution" =>
            /\ \A n \in Interior(H) :
                 /\ nodes[n].value =
                        IF nodes[n].__value = Undef THEN Null
                        ELSE nodes[n].__value
                 /\ nodes[n].alpha =
                        IF nodes[n].__alpha = Undef THEN Null
                        ELSE nodes[n].__alpha
                 /\ nodes[n].beta =
                        IF nodes[n].__beta = Undef THEN Null
                        ELSE nodes[n].__beta
                 /\ nodes[n].pruned = Bool(nodes[n].__pruned = True)
            /\ \A e \in PrunedEdges : edges[e].pruned = True)
    /\ [][call'.handler = "onShowSolution" => LeafValues' = LeafValues]_vars

\* the solution is shown on a tree with an interior node the search never
\* visited
C18_Witness ==
    /\ call.handler = "onShowSolution"
    /\ \E n \in Interior(H) :
           /\ nodes[n].__value = Undef
           /\ nodes[n].value = Null
           /\ edges[n].pruned = True

\* C19: compiling the same unchanged tree a second time gives a log equal
\* to the first action for action (target, field, old value, new value)
\* and the same shadow state.
C19_CompileIdempotent ==
    (HasLog /\ call.handler = "ensureAction") =>
        /\ alphaBeta(tree, H).q.actionListQueue = actionRef.actionListQueue
        /\ Shadow(alphaBeta(tree, H).h) = Shadow(H)

\* C20: when a cutoff occurs at a node, every edge and every node inside
\* each remaining sibling subtree has the shadow pruned flag set by the
\* compile.
C20_CutSubtreesPruned ==
    HasLog =>
        \A e \in PrunedEdges :
            \A n \in DOMAIN nodes :
                Below(n, e, BFac) =>
                    /\ edges[n].__pruned = True
                    /\ nodes[n].__pruned = True

(***************************************************************************)
(* The log of a compile, read as a sequence of steps.                      *)
(***************************************************************************)
Log == actionRef.actionListQueue
StepIds == 1 .. Len(Log)
\* the steps in which an action writes val to the key of the object
StepsWriting(object, key, val) ==
    {i \in StepIds :
        \E j \in 1 .. Len(Log[i]) :
            /\ Log[i][j].object = object
            /\ Log[i][j].key = key
            /\ Log[i][j].newVal = val}
\* the steps in which an action targets the key of the object
StepsTargeting(object, key) ==
    {i \in StepIds :
        \E j \in 1 .. Len(Log[i]) :
            Log[i][j].object = object /\ Log[i][j].key = key}
\* the nodes the search entered
EnteredNodes ==
    {n \in DOMAIN nodes : StepsWriting(NodeObj(n), "entered", True) # {}}
IsMaxRoot == tree.treeType = "maxNode"

\* alpha-beta search as the cutoff rule states it: the children in slot
\* order, each searched with the running bounds unless an earlier sibling
\* left b <= a; the result is the value and the set of nodes searched
RECURSIVE RefSearch(_, _, _, _, _), RefLoop(_, _, _, _, _, _, _, _, _),
          RefAfter(_, _, _, _, _, _, _, _, _)
RefSearch(h, n, a, b, isMax) ==
    IF IsLeaf(h, n) THEN [val |-> h.nodes[n].value, searched |-> {n}]
    ELSE RefLoop(h, n, 0, a, b, IF isMax THEN NegInf ELSE PosInf, FALSE,
                 isMax, {n})
RefLoop(h, n, k, a, b, cur, cut, isMax, searched) ==
    IF k >= BFac \/ cut THEN [val |-> cur, searched |-> searched]
    ELSE RefAfter(h, n, k, a, b, cur, isMax, searched,
                  RefSearch(h, Child(n, k, BFac), a, b, ~isMax))
RefAfter(h, n, k, a, b, cur, isMax, searched, r) ==
    IF isMax
    THEN RefLoop(h, n, k + 1,
                 IF JsGT(r.val, a) THEN r.val ELSE a, b,
                 IF JsGT(r.val, cur) THEN r.val ELSE cur,
                 JsLE(b, IF JsGT(r.val, a) THEN r.val ELSE a),
                 isMax, searched \cup r.searched)
    ELSE RefLoop(h, n, k + 1,
                 a, IF JsLT(r.val, b) THEN r.val ELSE b,
                 IF JsLT(r.val, cur) THEN r.val ELSE cur,
                 JsLE(IF JsLT(r.val, b) THEN r.val ELSE b, a),
                 isMax, searched \cup r.searched)
RefSearched == RefSearch(H, 0, NegInf, PosInf, IsMaxRoot).searched

\* C21: the nodes the compile recurses into are those the cutoff rule
\* searches (child k iff no earlier sibling left b <= a), and a child of a
\* searched node has a shadow-pruned incoming edge iff it is not searched.
C21_CutoffRule ==
    (HasLog /\ call.handler = "ensureAction") =>
        /\ EnteredNodes = RefSearched
        /\ \A n \in DOMAIN nodes \ {0} :
               Parent(n, BFac) \in RefSearched =>
                   (edges[n].__pruned = True <=> n \notin RefSearched)

\* a cutoff after the first of three children, and a node with no cutoff
C21_Witness ==
    /\ HasLog
    /\ call.handler = "ensureAction"
    /\ BFac = 3
    /\ \E p \in EnteredNodes :
           /\ edges[Child(p, 1, 3)].__pruned = True
           /\ edges[Child(p, 2, 3)].__pruned = True
    /\ \E p \in EnteredNodes \ {0} :
           /\ ~IsLeaf(H, p)
           /\ \A k \in 0 .. 2 : Child(p, k, 3) \in EnteredNodes

\* C22: in every step of the log of alphaBeta each (object, field) pair is
\* the target of at most one action.
C22_DisjointWrites ==
    HasLog =>
        \A i \in StepIds :
            \A j, k \in 1 .. Len(Log[i]) :
                (/\ j < k
                 /\ Log[i][j].object # NoObj
                 /\ Log[i][j].object = Log[i][k].object)
                    => Log[i][j].key # Log[i][k].key

\* the objects of the tree: every node and every edge
Objects ==
    {NodeObj(n) : n \in DOMAIN nodes} \cup {EdgeObj(e) : e \in DOMAIN edges}
\* the positions <<step, index>> of the log
Positions == UNION {{<<i, j>> : j \in 1 .. Len(Log[i])} : i \in StepIds}

\* C23: once the whole log has been played no node and no edge has
\* entered = true, and every entered = true action of the log is followed
\* by a later entered = false action on the same object.
C23_EnteredTransient ==
    HasLog =>
        /\ (InPlayback /\ AtEnd(actionRef)) =>
               /\ \A n \in DOMAIN nodes : nodes[n].entered # True
               /\ \A e \in DOMAIN edges : edges[e].entered # True
        /\ \A o \in Objects :
               \A i \in StepsWriting(o, "entered", True) :
                   \E j \in StepsWriting(o, "entered", False) : j > i

\* the nodes and edges at or below a shadow-pruned edge
InPrunedSubtree == {m \in DOMAIN edges : \E e \in PrunedEdges : Below(m, e, BFac)}

\* C24: the first step of the log is the root's entry group and the last
\* its exit group; a searched node is entered in a strictly earlier step
\* than any action on the entered flag of a descendant or of a
\* descendant's edge; the searched children of a node are entered in slot
\* order.
C24_StepOrder ==
    (HasLog /\ call.handler = "ensureAction") =>
        /\ StepsWriting(NodeObj(0), "entered", True) = {1}
        /\ StepsWriting(NodeObj(0), "entered", False) = {Len(Log)}
        /\ \A i \in {1, Len(Log)} :
               \A j \in 1 .. Len(Log[i]) :
                   Log[i][j].object \in {NodeObj(0), NoObj}
        /\ \A n \in EnteredNodes :
               \A m \in DOMAIN edges :
                   (m # n /\ Below(m, n, BFac)) =>
                       \A i \in StepsWriting(NodeObj(n), "entered", True) :
                           \A j \in StepsTargeting(NodeObj(m), "entered")
                                    \cup StepsTargeting(EdgeObj(m), "entered") :
                               i < j
        /\ \A n \in EnteredNodes \ LeafIds(tree.depth, BFac) :
               \A k1, k2 \in 0 .. (BFac - 1) :
                   (/\ k1 < k2
                    /\ Child(n, k2, BFac) \in EnteredNodes) =>
                       \A i \in StepsWriting(NodeObj(Child(n, k1, BFac)),
                                             "entered", True) :
                           \A j \in StepsWriting(NodeObj(Child(n, k2, BFac)),
                                                 "entered", True) :
                               i < j

\* a tree of depth 4 searched without any cutoff
C24_Witness ==
    /\ HasLog
    /\ call.handler = "ensureAction"
    /\ tree.depth = 4
    /\ EnteredNodes = DOMAIN nodes
    /\ PrunedEdges = {}

\* C25: in the log of alphaBeta no leaf is the target of a value action,
\* no node or edge inside a pruned subtree is the target of an entered
\* action, and every edge inside a pruned subtree is the target of exactly
\* one pruned action.
C25_ActionCoverage ==
    (HasLog /\ call.handler = "ensureAction") =>
        /\ \A n \in LeafIds(tree.depth, BFac) :
               StepsTargeting(NodeObj(n), "value") = {}
        /\ \A m \in InPrunedSubtree :
               /\ StepsTargeting(NodeObj(m), "entered") = {}
               /\ StepsTargeting(EdgeObj(m), "entered") = {}
               /\ Cardinality({p \in Positions :
                                  /\ Log[p[1]][p[2]].object = EdgeObj(m)
                                  /\ Log[p[1]][p[2]].key = "pruned"}) = 1

\* a cut subtree with an interior node: its edge and the edges below it
C25_Witness ==
    /\ HasLog
    /\ call.handler = "ensureAction"
    /\ \E e \in PrunedEdges :
           /\ ~IsLeaf(H, e)
           /\ Child(e, 0, BFac) \in InPrunedSubtree
           /\ StepsTargeting(EdgeObj(Child(e, 0, BFac)), "pruned") # {}

\* C26: after pause no stepForward is issued by auto-play: the step after
\* a pause is never a timeout of play calling stepForward.
C26_PauseCancels == [][call.handler = "pause" => call'.handler # "timer"]_vars

\* C27: compiling the search, then setSolution, then checkAnswer returns
\* true, on every generated tree of every depth.
C27_RevealThenVerify ==
    [][(call.handler = "onShowSolution" /\ call'.handler = "onCheckAnswer")
          => correct' = True]_vars

\* C28: with the whole log played from a reset tree, every searched
\* interior node's visible value, alpha and beta equal its shadow ones,
\* every interior node's visible pruned equals its shadow pruned and every
\* edge's visible pruned equals its shadow pruned.
C28_PlaybackEqualsShadow ==
    (InPlayback /\ AtEnd(actionRef)) =>
        /\ \A n \in Interior(H) \cap EnteredNodes :
               /\ nodes[n].value = nodes[n].__value
               /\ nodes[n].alpha = nodes[n].__alpha
               /\ nodes[n].beta = nodes[n].__beta
        /\ \A n \in Interior(H) : nodes[n].pruned = nodes[n].__pruned
        /\ \A e \in DOMAIN edges : edges[e].pruned = edges[e].__pruned

\* C28 as amended: with the whole log played from a reset tree, every
\* searched interior node's visible value, alpha and beta equal its shadow
\* ones; an interior node's visible pruned is true exactly when its shadow
\* pruned is true; an edge's visible pruned is true when its shadow pruned
\* is true and false otherwise; and setSolution would write the same value,
\* alpha and beta to every interior node, the same pruned flag to every
\* edge, and pruned = true to exactly the interior nodes that have it.
C28_PlaybackEndsAtSolution ==
    (InPlayback /\ AtEnd(actionRef)) =>
        /\ \A n \in Interior(H) \cap EnteredNodes :
               /\ nodes[n].value = nodes[n].__value
               /\ nodes[n].alpha = nodes[n].__alpha
               /\ nodes[n].beta = nodes[n].__beta
        /\ \A n \in Interior(H) :
               (nodes[n].pruned = True) <=> (nodes[n].__pruned = True)
        /\ \A e \in DOMAIN edges :
               edges[e].pruned = Bool(edges[e].__pruned = True)
        /\ \A n \in Interior(H) :
               /\ nodes[n].value = setSolution(tree, H).nodes[n].value
               /\ nodes[n].alpha = setSolution(tree, H).nodes[n].alpha
               /\ nodes[n].beta = setSolution(tree, H).nodes[n].beta
               /\ (nodes[n].pruned = True)
                      <=> (setSolution(tree, H).nodes[n].pruned = True)
        /\ \A e \in DOMAIN edges :
               edges[e].pruned = setSolution(tree, H).edges[e].pruned

\* the log of a tree of depth 4 was played to its end: an interior node was
\* cut off, and the value of a searched node was improved by a later child
C28_Witness ==
    /\ InPlayback
    /\ AtEnd(actionRef)
    /\ call.handler = "goToEnd"
    /\ \E e \in PrunedEdges :
           /\ ~IsLeaf(H, e)
           /\ edges[e].pruned = True
           /\ nodes[e].value = Null
    /\ \E n \in Interior(H) \cap EnteredNodes :
           /\ StepsWriting(NodeObj(n), "value", Num(1)) # {}
           /\ nodes[n].value = Num(0)
           /\ nodes[n].__value = Num(0)
    /\ nodes[0].value = nodes[0].__value

\* C29: whenever a log is cached for the tree, the root's shadow value is
\* the minimax value of the tree's current leaf values.
C29_CachedSolutionCurrent ==
    (/\ HasLog
     /\ \A n \in LeafIds(tree.depth, BFac) : nodes[n].value.t = "num")
        => nodes[0].__value = Num(Minimax(H, 0))

====
